---- MODULE Spec2Model ----
(***************************************************************************)
(* State-machine model of the Lakebase image gallery's database layer:     *)
(* DatabaseManager (src/src/database.py) with its OAuth credential, its    *)
(* connection pool, the schema resolver and the paginated path queries.    *)
(***************************************************************************)
EXTENDS Integers, Sequences, FiniteSets, TLC

(* ---------------------------------------------------------------- constants *)

\* config.py
TOKEN_REFRESH_INTERVAL == 900

CONNECTION_POOL_MAX_SIZE == 10

\* Python's None for the password, the pool handle and a held connection
None == 0

\* config.DEFAULT_SCHEMA as configured ("example"), among the schema names
Example == 2

\* Python's None for min_score and max_score, SQL NULL for a score (0 is a score)
NoScore == -1

\* the empty string '' as a label, labelDetail or argument (it sorts first)
EmptyString == -2

(* ------------------------------------------------------------------- bounds *)

\* value of time.time() when the process starts (seconds)
StartTime == 1000

\* how long after StartTime the clock is followed
Horizon == 1353

\* how many tokens the identity service hands out
MaxTokens == 2

\* how many ConnectionPool objects are ever constructed
MaxPools == 2

\* Streamlit sessions (script threads) sharing the module-level db_manager
NSessions == 2

\* schemas of the database, numbered in the order ORDER BY table_schema gives
NSchemas == 3

\* how often the catalog is changed from outside while the process runs
MaxDDL == 1

\* the largest page size (limit) a scan asks for
MaxLimit == 3

\* the clock advances by one of these between two steps
TickSteps == {450, 451}

Sessions == 1..NSessions

Schemas == 1..NSchemas

VARIABLES
    now,                    \* time.time()
    postgres_password,      \* DatabaseManager.postgres_password (None or a token)
    last_password_refresh,  \* DatabaseManager.last_password_refresh
    connection_pool,        \* DatabaseManager.connection_pool (None or a pool id)
    pools,                  \* every ConnectionPool constructed so far
    issued,                 \* tokens handed out by the identity service so far
    pc,                     \* per session: position in the code
    frame,                  \* per session: the function whose get_connection runs
    h,                      \* per session: the pool get_connection_pool returned
    outer,                  \* per session: pool of the connection held by the operation
    inner,                  \* per session: pool of the connection held by find_table_schema
    call,                   \* per session: what the current get_connection call did
    result,                 \* per session: how the last operation ended
    err,                    \* per session: an Exception was raised in the operation
    DEFAULT_SCHEMA,         \* config.DEFAULT_SCHEMA
    catalog,                \* information_schema.tables: the schemas holding TABLE_NAME
    cte,                    \* per session: locals of check_table_exists
    history,                \* the values config.DEFAULT_SCHEMA has had, in order
    moves,                  \* changes of DEFAULT_SCHEMA since the catalog last changed
    ddl,                    \* catalog changes so far
    table,                  \* the rows of image_predictions
    filt,                   \* the filter arguments of the running scan
    lim,                    \* the limit argument of the running scan
    off,                    \* the offset argument of the next get_image_paths call
    acc,                    \* the paths of the pages fetched so far, concatenated
    allp,                   \* what get_all_image_paths returned
    phase,                  \* "idle", "paging", "drained", "done" or "called"
    query,                  \* the last query call: its arguments and what it returned
    image                   \* a load_image_from_volume call: input, dispatch, outcome

mgrVars == <<postgres_password, last_password_refresh, connection_pool, pools, issued>>
sessVars == <<pc, frame, h, outer, inner, call, result, err>>
schVars == <<DEFAULT_SCHEMA, catalog, cte, history, moves, ddl>>
pureVars == <<table, filt, lim, off, acc, allp, phase, query, image>>
vars == <<now, mgrVars, sessVars, schVars, pureVars>>

(* --------------------------------------------------------- DatabaseManager *)

NoCall ==
    [age0 |-> -1, pool0 |-> FALSE, after_stop |-> FALSE,
     fetches |-> 0, builds |-> 0, closes |-> 0, outcome |-> "none"]

\* DatabaseManager.__init__ and the idle sessions
InitManager ==
    /\ now = StartTime
    /\ postgres_password = None
    /\ last_password_refresh = 0
    /\ connection_pool = None
    /\ pools = <<>>
    /\ issued = 0

InitSessions ==
    /\ pc = [t \in Sessions |-> "idle"]
    /\ frame = [t \in Sessions |-> "none"]
    /\ h = [t \in Sessions |-> None]
    /\ outer = [t \in Sessions |-> None]
    /\ inner = [t \in Sessions |-> None]
    /\ call = [t \in Sessions |-> NoCall]
    /\ result = [t \in Sessions |-> "none"]
    /\ err = [t \in Sessions |-> FALSE]

\* the expiry test of refresh_oauth_token and get_connection
StaleOffByOne ==
    \/ postgres_password = None
    \/ now - last_password_refresh >= TOKEN_REFRESH_INTERVAL

Stale ==
    \/ postgres_password = None
    \/ now - last_password_refresh > TOKEN_REFRESH_INTERVAL

\* ConnectionPool.close()
ClosePool(ps, p) == [ps EXCEPT ![p].closed = TRUE]

\* a connection goes back to its pool when a with-block is left
PutConn(ps, p) == IF p = None THEN ps ELSE [ps EXCEPT ![p].out = @ - 1]

\* time passes
Tick ==
    /\ \E d \in TickSteps :
        /\ now + d <= StartTime + Horizon
        /\ now' = now + d
    /\ UNCHANGED <<mgrVars, sessVars, schVars, pureVars>>

\* (mutant) an exception leaves the operation with its connections still
\* checked out
UnwindKeepsConnections(t, kind) ==
    LET caught == kind = "error" /\ frame[t] = "fts"
    IN  /\ UNCHANGED <<pools, inner, outer>>
        /\ h' = [h EXCEPT ![t] = None]
        /\ pc' = [pc EXCEPT ![t] = IF caught THEN "cte_found" ELSE "idle"]
        /\ frame' = [frame EXCEPT ![t] = IF caught THEN "cte" ELSE "none"]
        /\ err' = [err EXCEPT ![t] = @ \/ kind = "error"]
        /\ result' = [result EXCEPT ![t] =
                IF caught THEN @
                ELSE IF kind = "stop" THEN "stopped"
                ELSE IF frame[t] = "cte" THEN "false"
                ELSE "raised"]

(* An exception leaves the with-blocks of the running operation: the held   *)
(* connections go back, and the innermost handler decides how it ends.      *)
(* kind "stop" is Streamlit's StopException (a BaseException, which no       *)
(* `except Exception` catches); kind "error" is any Exception.               *)
Unwind(t, kind) ==
    LET caught == kind = "error" /\ frame[t] = "fts"
    IN  /\ pools' = IF caught THEN PutConn(pools, inner[t])
                    ELSE PutConn(PutConn(pools, inner[t]), outer[t])
        /\ inner' = [inner EXCEPT ![t] = None]
        /\ outer' = [outer EXCEPT ![t] = IF caught THEN @ ELSE None]
        /\ h' = [h EXCEPT ![t] = None]
        /\ pc' = [pc EXCEPT ![t] = IF caught THEN "cte_found" ELSE "idle"]
        /\ frame' = [frame EXCEPT ![t] = IF caught THEN "cte" ELSE "none"]
        /\ err' = [err EXCEPT ![t] = @ \/ kind = "error"]
        /\ result' = [result EXCEPT ![t] =
                IF caught THEN @
                ELSE IF kind = "stop" THEN "stopped"
                ELSE IF frame[t] = "cte" THEN "false"
                ELSE "raised"]

\* get_connection, lines 75-79: drop the pool of an expired credential
get_connection(t) ==
    /\ pc[t] = "gc_enter"
    /\ call' = [call EXCEPT ![t] =
            [age0 |-> IF postgres_password = None THEN -1
                      ELSE now - last_password_refresh,
             pool0 |-> connection_pool # None,
             after_stop |-> frame[t] # "fts" /\ result[t] = "stopped",
             fetches |-> 0, builds |-> 0,
             closes |-> IF Stale /\ connection_pool # None THEN 1 ELSE 0,
             outcome |-> "running"]]
    /\ IF Stale /\ connection_pool # None
         THEN /\ pools' = ClosePool(pools, connection_pool)
              /\ connection_pool' = None
         ELSE UNCHANGED <<pools, connection_pool>>
    /\ pc' = [pc EXCEPT ![t] = "gcp_check"]
    /\ UNCHANGED <<now, postgres_password, last_password_refresh, issued,
                   frame, h, outer, inner, result, err, schVars, pureVars>>

\* get_connection_pool, line 49
get_connection_pool(t) ==
    /\ pc[t] = "gcp_check"
    /\ pc' = [pc EXCEPT ![t] = IF connection_pool = None THEN "rot_check" ELSE "gcp_return"]
    /\ UNCHANGED <<now, mgrVars, frame, h, outer, inner, call, result, err, schVars, pureVars>>

\* refresh_oauth_token, lines 36-37
refresh_oauth_token(t) ==
    /\ pc[t] = "rot_check"
    /\ pc' = [pc EXCEPT ![t] = IF Stale THEN "rot_fetch" ELSE "gcp_build"]
    /\ UNCHANGED <<now, mgrVars, frame, h, outer, inner, call, result, err, schVars, pureVars>>

\* refresh_oauth_token, lines 41-42: the identity service answers
oauth_token_ok(t) ==
    /\ pc[t] = "rot_fetch"
    /\ issued < MaxTokens
    /\ issued' = issued + 1
    /\ postgres_password' = issued + 1
    /\ last_password_refresh' = now
    /\ call' = [call EXCEPT ![t].fetches = @ + 1]
    /\ pc' = [pc EXCEPT ![t] = "gcp_build"]
    /\ UNCHANGED <<now, connection_pool, pools, frame, h, outer, inner, result, err, schVars, pureVars>>

\* (mutant) the fetch raises and the error is swallowed: no st.stop()
oauth_token_fails_no_stop(t) ==
    /\ pc[t] = "rot_fetch"
    /\ call' = [call EXCEPT ![t].fetches = @ + 1]
    /\ pc' = [pc EXCEPT ![t] = "gcp_build"]
    /\ UNCHANGED <<now, mgrVars, frame, h, outer, inner, result, err, schVars, pureVars>>

\* refresh_oauth_token, lines 43-45: the fetch raises, st.error and st.stop().
\* Inside a Streamlit script run st.stop() raises StopException and the run ends.
oauth_token_fails(t) ==
    /\ pc[t] = "rot_fetch"
    /\ call' = [call EXCEPT ![t].fetches = @ + 1, ![t].outcome = "stopped"]
    /\ Unwind(t, "stop")
    /\ UNCHANGED <<now, postgres_password, last_password_refresh, connection_pool,
                   issued, schVars, pureVars>>

\* get_connection_pool, lines 53-68: a pool bound to the stored password
ConnectionPool(t) ==
    /\ pc[t] = "gcp_build"
    /\ Len(pools) < MaxPools
    /\ pools' = Append(pools, [tok |-> postgres_password, closed |-> FALSE, out |-> 0])
    /\ connection_pool' = Len(pools) + 1
    /\ call' = [call EXCEPT ![t].builds = @ + 1]
    /\ pc' = [pc EXCEPT ![t] = "gcp_return"]
    /\ UNCHANGED <<now, postgres_password, last_password_refresh, issued,
                   frame, h, outer, inner, result, err, schVars, pureVars>>

\* get_connection_pool line 70 and get_connection line 81: .connection() on
\* the handle read now (None.connection() is an AttributeError)
pool_connection(t) ==
    /\ pc[t] = "gcp_return"
    /\ IF connection_pool = None
         THEN /\ call' = [call EXCEPT ![t].outcome = "raised"]
              /\ Unwind(t, "error")
         ELSE /\ call' = [call EXCEPT ![t].outcome = "returned"]
              /\ h' = [h EXCEPT ![t] = connection_pool]
              /\ pc' = [pc EXCEPT ![t] = "with_enter"]
              /\ UNCHANGED <<pools, frame, outer, inner, result, err>>
    /\ UNCHANGED <<now, postgres_password, last_password_refresh, connection_pool,
                   issued, schVars, pureVars>>

\* entering `with self.get_connection() as conn`: the pool hands out a connection
with_enter(t) ==
    /\ pc[t] = "with_enter"
    /\ ~pools[h[t]].closed
    /\ pools[h[t]].out < CONNECTION_POOL_MAX_SIZE
    /\ pools' = [pools EXCEPT ![h[t]].out = @ + 1]
    /\ IF frame[t] = "fts"
         THEN inner' = [inner EXCEPT ![t] = h[t]] /\ UNCHANGED outer
         ELSE outer' = [outer EXCEPT ![t] = h[t]] /\ UNCHANGED inner
    /\ pc' = [pc EXCEPT ![t] =
            CASE frame[t] = "cte" -> "cte_exists"
              [] frame[t] = "fts" -> "fts_query"
              [] OTHER -> "q_exec"]
    /\ UNCHANGED <<now, postgres_password, last_password_refresh, connection_pool,
                   issued, frame, h, call, result, err, schVars, pureVars>>

\* entering the with-block fails: PoolClosed on a closed pool, PoolTimeout when
\* the database is unreachable or every connection stays checked out
with_enter_fails(t) ==
    /\ pc[t] = "with_enter"
    /\ Unwind(t, "error")
    /\ UNCHANGED <<now, postgres_password, last_password_refresh, connection_pool,
                   issued, call, schVars, pureVars>>

\* a query operation without a handler of its own (get_distinct_labels, ...)
get_distinct_labels(t) ==
    /\ pc[t] = "idle"
    /\ pc' = [pc EXCEPT ![t] = "gc_enter"]
    /\ frame' = [frame EXCEPT ![t] = "op"]
    /\ err' = [err EXCEPT ![t] = FALSE]
    /\ UNCHANGED <<now, mgrVars, h, outer, inner, call, result, schVars, pureVars>>

\* cur.execute and fetchall succeed; the with-block returns the connection
execute_ok(t) ==
    /\ pc[t] = "q_exec"
    /\ pools' = PutConn(pools, outer[t])
    /\ outer' = [outer EXCEPT ![t] = None]
    /\ h' = [h EXCEPT ![t] = None]
    /\ pc' = [pc EXCEPT ![t] = "idle"]
    /\ frame' = [frame EXCEPT ![t] = "none"]
    /\ result' = [result EXCEPT ![t] = "rows"]
    /\ UNCHANGED <<now, postgres_password, last_password_refresh, connection_pool,
                   issued, inner, call, err, schVars, pureVars>>

\* cur.execute raises; nothing in the operation catches it
execute_fails(t) ==
    /\ pc[t] = "q_exec"
    /\ Unwind(t, "error")
    /\ UNCHANGED <<now, postgres_password, last_password_refresh, connection_pool,
                   issued, call, schVars, pureVars>>

\* the steps of get_connection, shared by every operation
ConnectionStep(t) ==
    \/ get_connection(t)
    \/ get_connection_pool(t)
    \/ refresh_oauth_token(t)
    \/ oauth_token_ok(t)
    \/ oauth_token_fails(t)
    \/ ConnectionPool(t)
    \/ pool_connection(t)
    \/ with_enter(t)
    \/ with_enter_fails(t)

QueryStep(t) ==
    \/ get_distinct_labels(t)
    \/ execute_ok(t)
    \/ execute_fails(t)

NoCte == [schema |-> None, found |-> None, searched |-> FALSE]

\* config.py line 11, and the table where it is expected
InitSchemaFixed ==
    /\ DEFAULT_SCHEMA = Example
    /\ catalog = {Example}
    /\ cte = [t \in Sessions |-> NoCte]
    /\ history = <<Example>>
    /\ moves = 0
    /\ ddl = 0

\* no filter field supplied
NoFilter ==
    [search_term |-> <<>>, label |-> None, label_detail |-> None,
     min_score |-> NoScore, max_score |-> NoScore]

\* no image is being loaded
NoImage == [input |-> <<>>, state |-> "none", dispatched |-> <<>>, downloads |-> 0]

\* no query call has been made
NoQuery ==
    [op |-> "none", f |-> NoFilter, limit |-> 0, offset |-> 0, out |-> <<>>]

\* no scan is running
InitPureIdle ==
    /\ table = {}
    /\ filt = NoFilter
    /\ lim = 1
    /\ off = 0
    /\ acc = <<>>
    /\ allp = <<>>
    /\ phase = "idle"
    /\ query = NoQuery
    /\ image = NoImage

\* one session issuing query operations one after the other
Init ==
    /\ InitManager
    /\ InitSessions
    /\ InitSchemaFixed
    /\ InitPureIdle

Next ==
    \/ Tick
    \/ ConnectionStep(1)
    \/ QueryStep(1)

Spec == Init /\ [][Next]_vars

\* the sessions of one process, running query operations concurrently
NextConc ==
    \/ Tick
    \/ \E t \in Sessions : ConnectionStep(t)
    \/ \E t \in Sessions : QueryStep(t)

SpecConc == Init /\ [][NextConc]_vars

(* ---------------------------------------------------------- schema resolver *)

\* (mutant) the default argument bound when the function was defined
ExistsInDefinitionTimeSchema(schema) == Example \in catalog

\* check_table_exists, lines 117-124: SELECT EXISTS (... table_schema = %s ...)
ExistsInSchema(schema) == schema \in catalog

\* (mutant) ORDER BY table_schema DESC
FindTableSchemaLast ==
    IF catalog = {} THEN None
    ELSE CHOOSE s \in catalog : \A r \in catalog : r <= s

\* (mutant) the fetched row is dropped
FindTableSchemaNever == None

\* find_table_schema, lines 88-96: ... ORDER BY table_schema LIMIT 1
FindTableSchema ==
    IF catalog = {} THEN None
    ELSE CHOOSE s \in catalog : \A r \in catalog : s <= r

\* the table is created, dropped or moved by someone else, between two operations
CatalogChange ==
    /\ \A t \in Sessions : pc[t] = "idle"
    /\ ddl < MaxDDL
    /\ \E c \in SUBSET Schemas :
        /\ c # catalog
        /\ catalog' = c
    /\ ddl' = ddl + 1
    /\ moves' = 0
    /\ UNCHANGED <<now, mgrVars, sessVars, DEFAULT_SCHEMA, cte, history, pureVars>>

\* check_table_exists, lines 101-106
check_table_exists(t) ==
    /\ pc[t] = "idle"
    /\ cte' = [cte EXCEPT ![t] = [schema |-> DEFAULT_SCHEMA, found |-> None,
                                   searched |-> FALSE]]
    /\ pc' = [pc EXCEPT ![t] = "gc_enter"]
    /\ frame' = [frame EXCEPT ![t] = "cte"]
    /\ err' = [err EXCEPT ![t] = FALSE]
    /\ UNCHANGED <<now, mgrVars, h, outer, inner, call, result,
                   DEFAULT_SCHEMA, catalog, history, moves, ddl, pureVars>>

\* check_table_exists, lines 109-130: the table is in the schema (return True),
\* or it is not and find_table_schema is called
table_exists_query(t) ==
    /\ pc[t] = "cte_exists"
    /\ IF ExistsInSchema(cte[t].schema)
         THEN /\ pools' = PutConn(pools, outer[t])
              /\ outer' = [outer EXCEPT ![t] = None]
              /\ h' = [h EXCEPT ![t] = None]
              /\ pc' = [pc EXCEPT ![t] = "idle"]
              /\ frame' = [frame EXCEPT ![t] = "none"]
              /\ result' = [result EXCEPT ![t] = "true"]
              /\ UNCHANGED cte
         ELSE /\ pc' = [pc EXCEPT ![t] = "gc_enter"]
              /\ frame' = [frame EXCEPT ![t] = "fts"]
              /\ cte' = [cte EXCEPT ![t].searched = TRUE]
              /\ UNCHANGED <<pools, outer, h, result>>
    /\ UNCHANGED <<now, postgres_password, last_password_refresh, connection_pool,
                   issued, inner, call, err, DEFAULT_SCHEMA, catalog, history, moves, ddl, pureVars>>

\* check_table_exists, lines 109-124 raise: caught at lines 136-138, return False
table_exists_query_fails(t) ==
    /\ pc[t] = "cte_exists"
    /\ Unwind(t, "error")
    /\ UNCHANGED <<now, postgres_password, last_password_refresh, connection_pool,
                   issued, call, schVars, pureVars>>

\* find_table_schema, lines 87-96
find_table_schema(t) ==
    /\ pc[t] = "fts_query"
    /\ cte' = [cte EXCEPT ![t].found = FindTableSchema]
    /\ pools' = PutConn(pools, inner[t])
    /\ inner' = [inner EXCEPT ![t] = None]
    /\ pc' = [pc EXCEPT ![t] = "cte_found"]
    /\ frame' = [frame EXCEPT ![t] = "cte"]
    /\ UNCHANGED <<now, postgres_password, last_password_refresh, connection_pool,
                   issued, h, outer, call, result, err,
                   DEFAULT_SCHEMA, catalog, history, moves, ddl, pureVars>>

\* find_table_schema, lines 88-95 raise: caught at lines 97-99, return None
find_table_schema_fails(t) ==
    /\ pc[t] = "fts_query"
    /\ Unwind(t, "error")
    /\ UNCHANGED <<now, postgres_password, last_password_refresh, connection_pool,
                   issued, call, schVars, pureVars>>

\* config.DEFAULT_SCHEMA = v, with the record of its values
SetDefaultSchema(v) ==
    /\ DEFAULT_SCHEMA' = v
    /\ history' = IF v = DEFAULT_SCHEMA THEN history ELSE Append(history, v)
    /\ moves' = IF v = DEFAULT_SCHEMA THEN moves ELSE moves + 1

\* leaving check_table_exists with a return value
ReturnFromCheck(t, value) ==
    /\ pools' = PutConn(pools, outer[t])
    /\ outer' = [outer EXCEPT ![t] = None]
    /\ h' = [h EXCEPT ![t] = None]
    /\ pc' = [pc EXCEPT ![t] = "idle"]
    /\ frame' = [frame EXCEPT ![t] = "none"]
    /\ result' = [result EXCEPT ![t] = value]
    /\ UNCHANGED <<now, postgres_password, last_password_refresh, connection_pool,
                   issued, inner, call, err, catalog, cte, ddl, pureVars>>

\* (mutant) the assignment moved in front of the test
check_table_exists_found_unguarded(t) ==
    /\ pc[t] = "cte_found"
    /\ SetDefaultSchema(cte[t].found)
    /\ ReturnFromCheck(t, IF cte[t].found # None THEN "true" ELSE "false")

\* check_table_exists, lines 131-135
check_table_exists_found(t) ==
    /\ pc[t] = "cte_found"
    /\ IF cte[t].found # None
         THEN /\ SetDefaultSchema(cte[t].found)
              /\ ReturnFromCheck(t, "true")
         ELSE /\ UNCHANGED <<DEFAULT_SCHEMA, history, moves>>
              /\ ReturnFromCheck(t, "false")

SchemaStep(t) ==
    \/ check_table_exists(t)
    \/ table_exists_query(t)
    \/ table_exists_query_fails(t)
    \/ find_table_schema(t)
    \/ find_table_schema_fails(t)
    \/ check_table_exists_found(t)

\* one session calling check_database_connection again and again (every rerun
\* of app.main does), over a catalog that starts anywhere
InitSchema ==
    /\ InitManager
    /\ InitSessions
    /\ DEFAULT_SCHEMA = Example
    /\ catalog \in SUBSET Schemas
    /\ cte = [t \in Sessions |-> NoCte]
    /\ history = <<Example>>
    /\ moves = 0
    /\ ddl = 0
    /\ InitPureIdle

NextSchema ==
    \/ Tick
    \/ CatalogChange
    \/ ConnectionStep(1)
    \/ SchemaStep(1)

SpecSchema == InitSchema /\ [][NextSchema]_vars

\* one session running check_table_exists and the query operations in any
\* order, over a catalog that starts anywhere
NextOps ==
    \/ Tick
    \/ ConnectionStep(1)
    \/ SchemaStep(1)
    \/ QueryStep(1)

SpecOps == InitSchema /\ [][NextOps]_vars

(* -------------------------------------------------------------- path queries *)

\* rows of image_predictions: path (character codes), label, labelDetail and
\* score (hundredths); None is SQL NULL for the two labels, NoScore for score
SampleRows ==
    { [path |-> <<65>>,     label |-> 1,    labelDetail |-> 1,    score |-> 90],
      [path |-> <<97>>,     label |-> 2,    labelDetail |-> None, score |-> 10],
      [path |-> <<97, 98>>, label |-> 1,    labelDetail |-> None, score |-> NoScore],
      [path |-> <<98>>,     label |-> None, labelDetail |-> 1,    score |-> 50],
      [path |-> <<66, 97>>, label |-> 2,    labelDetail |-> 2,    score |-> 50],
      [path |-> <<99>>,     label |-> EmptyString, labelDetail |-> 2, score |-> 0] }

\* the filter arguments the scans are run with
Filters ==
    [search_term : {<<>>, <<97>>, <<66>>},
     label : {EmptyString} \cup 0..2,
     label_detail : {EmptyString} \cup 0..2,
     min_score : {NoScore, 0, 50},
     max_score : {NoScore, 50, 100}]

\* ILIKE compares letters without their case
Lower(c) == IF c \in 65..90 THEN c + 32 ELSE c

\* path ILIKE '%term%'
ILike(path, term) ==
    \E i \in 0..(Len(path) - Len(term)) :
        \A k \in 1..Len(term) : Lower(path[i + k]) = Lower(term[k])

\* ORDER BY path: p sorts before q
PathBefore(p, q) ==
    \/ \E i \in 1..Len(p) :
            /\ i <= Len(q)
            /\ p[i] < q[i]
            /\ \A k \in 1..(i - 1) : p[k] = q[k]
    \/ /\ Len(p) < Len(q)
       /\ \A k \in 1..Len(p) : p[k] = q[k]

RECURSIVE OrderByPath(_)
OrderByPath(ps) ==
    IF ps = {} THEN <<>>
    ELSE LET first == CHOOSE p \in ps : \A q \in ps \ {p} : PathBefore(p, q)
         IN  <<first>> \o OrderByPath(ps \ {first})

\* `if label:` - Python's truth test of an Optional[str]: None and '' are false
Truthy(v) == v # None /\ v # EmptyString

\* the conditions shared by the queries, lines 163-177 (and 211-225, 334-348):
\* a label or label_detail that is None or '' adds none, a score bound that is
\* None adds none; a comparison with NULL selects nothing
LabelConditions(row, label, label_detail, min_score, max_score) ==
    /\ Truthy(label) => row.label = label
    /\ Truthy(label_detail) => row.labelDetail = label_detail
    /\ min_score # NoScore => (row.score # NoScore /\ row.score >= min_score)
    /\ max_score # NoScore => (row.score # NoScore /\ row.score <= max_score)

\* the rows LIMIT %s OFFSET %s leaves of an ordered result
LimitOffset(rows, limit, offset) ==
    IF offset >= Len(rows) THEN <<>>
    ELSE SubSeq(rows, offset + 1,
                IF offset + limit < Len(rows) THEN offset + limit ELSE Len(rows))

\* (mutant) the next page starts one row late
get_image_paths_skips_a_row(limit, offset, f) ==
    LET hits == {row.path : row \in {r \in table :
                    /\ f.search_term # <<>> => ILike(r.path, f.search_term)
                    /\ LabelConditions(r, f.label, f.label_detail,
                                       f.min_score, f.max_score)}}
        page == LimitOffset(OrderByPath(hits), limit,
                            IF offset = 0 THEN 0 ELSE offset + 1)
    IN  [i \in 1..Len(page) |-> <<page[i]>>]

\* get_image_paths, lines 140-191: the rows (1-tuples) of one page
get_image_paths(limit, offset, f) ==
    LET hits == {row.path : row \in {r \in table :
                    /\ f.search_term # <<>> => ILike(r.path, f.search_term)
                    /\ LabelConditions(r, f.label, f.label_detail,
                                       f.min_score, f.max_score)}}
        page == LimitOffset(OrderByPath(hits), limit, offset)
    IN  [i \in 1..Len(page) |-> <<page[i]>>]

\* get_all_image_paths, lines 193-239: it has no search_term parameter
get_all_image_paths(label, label_detail, min_score, max_score) ==
    OrderByPath({row.path : row \in {r \in table :
        LabelConditions(r, label, label_detail, min_score, max_score)}})

\* a caller starts reading pages of size L from offset 0
StartScan ==
    /\ phase = "idle"
    /\ \E f \in Filters, L \in 1..MaxLimit :
        /\ filt' = f
        /\ lim' = L
    /\ off' = 0
    /\ acc' = <<>>
    /\ phase' = "paging"
    /\ UNCHANGED <<now, mgrVars, sessVars, schVars, image, table, allp, query>>

\* the caller fetches the next page and moves the offset on by L, until a page
\* comes back empty
NextPage ==
    /\ phase = "paging"
    /\ LET page == get_image_paths(lim, off, filt)
       IN  IF page = <<>>
           THEN /\ phase' = "drained"
                /\ UNCHANGED <<acc, off>>
           ELSE /\ acc' = acc \o [i \in 1..Len(page) |-> page[i][1]]
                /\ off' = off + lim
                /\ UNCHANGED phase
    /\ UNCHANGED <<now, mgrVars, sessVars, schVars, image, table, filt, lim, allp, query>>

\* the caller asks get_all_image_paths for the same filters
AllPaths ==
    /\ phase = "drained"
    /\ allp' = get_all_image_paths(filt.label, filt.label_detail,
                                   filt.min_score, filt.max_score)
    /\ phase' = "done"
    /\ UNCHANGED <<now, mgrVars, sessVars, schVars, image, table, filt, lim, off, acc, query>>

\* scans over every table made of the sample rows (their paths are unique)
InitPage ==
    /\ InitManager
    /\ InitSessions
    /\ InitSchemaFixed
    /\ table \in SUBSET SampleRows
    /\ filt = NoFilter
    /\ lim = 1
    /\ off = 0
    /\ acc = <<>>
    /\ allp = <<>>
    /\ phase = "idle"
    /\ query = NoQuery
    /\ image = NoImage

NextPageSpec ==
    \/ StartScan
    \/ NextPage
    \/ AllPaths

SpecPage == InitPage /\ [][NextPageSpec]_vars

(* ------------------------------------------------------- filters and ranges *)

\* the largest offset a single get_image_paths call is made with
MaxOffset == 3

\* the WHERE clause of get_image_paths and get_total_image_count, lines 163-181
\* (334-352): `if search_term:` adds path ILIKE %term%, then the shared conditions
WhereConditions(row, f) ==
    /\ f.search_term # <<>> => ILike(row.path, f.search_term)
    /\ LabelConditions(row, f.label, f.label_detail, f.min_score, f.max_score)

\* get_total_image_count, lines 307-355: SELECT COUNT(*) under the conditions
get_total_image_count(f) ==
    Cardinality({row \in table : WhereConditions(row, f)})

\* ORDER BY of a text column other than path
RECURSIVE OrderByValue(_)
OrderByValue(vs) ==
    IF vs = {} THEN <<>>
    ELSE LET first == CHOOSE v \in vs : \A w \in vs : v <= w
         IN  <<first>> \o OrderByValue(vs \ {first})

\* get_distinct_label_details, lines 259-284: `if label:` picks the query
get_distinct_label_details(label) ==
    IF Truthy(label)
    THEN OrderByValue({row.labelDetail : row \in {r \in table :
                            r.labelDetail # None /\ r.label = label}})
    ELSE OrderByValue({row.labelDetail : row \in {r \in table :
                            r.labelDetail # None}})

\* SELECT MIN(score), MAX(score) ... WHERE score IS NOT NULL, lines 295-301:
\* one row, both columns NULL when no row has a score
MinMaxScore ==
    LET scores == {row.score : row \in {r \in table : r.score # NoScore}}
    IN  IF scores = {} THEN <<NoScore, NoScore>>
        ELSE <<CHOOSE lo \in scores : \A x \in scores : lo <= x,
               CHOOSE hi \in scores : \A x \in scores : hi >= x>>

\* (mutant) no default range: the aggregate row is returned as it came
get_score_range_without_default == MinMaxScore

\* get_score_range, lines 286-305: the aggregate row as floats, or (0.0, 1.0),
\* in hundredths
get_score_range ==
    LET fetched == MinMaxScore
    IN  IF fetched[1] # NoScore /\ fetched[2] # NoScore
        THEN fetched
        ELSE <<0, 100>>

\* a caller runs get_image_paths once
call_get_image_paths ==
    /\ phase = "idle"
    /\ \E f \in Filters, limit \in 1..MaxLimit, offset \in 0..MaxOffset :
        query' = [op |-> "get_image_paths", f |-> f, limit |-> limit,
              offset |-> offset, out |-> get_image_paths(limit, offset, f)]
    /\ phase' = "called"
    /\ UNCHANGED <<now, mgrVars, sessVars, schVars, image, table, filt, lim, off, acc,
                   allp>>

\* a caller runs get_all_image_paths once (it takes no search_term)
call_get_all_image_paths ==
    /\ phase = "idle"
    /\ \E f \in Filters :
        /\ f.search_term = <<>>
        /\ query' = [op |-> "get_all_image_paths", f |-> f, limit |-> 0,
                 offset |-> 0,
                 out |-> get_all_image_paths(f.label, f.label_detail,
                                             f.min_score, f.max_score)]
    /\ phase' = "called"
    /\ UNCHANGED <<now, mgrVars, sessVars, schVars, image, table, filt, lim, off, acc,
                   allp>>

\* a caller runs get_total_image_count once
call_get_total_image_count ==
    /\ phase = "idle"
    /\ \E f \in Filters :
        query' = [op |-> "get_total_image_count", f |-> f, limit |-> 0,
              offset |-> 0, out |-> get_total_image_count(f)]
    /\ phase' = "called"
    /\ UNCHANGED <<now, mgrVars, sessVars, schVars, image, table, filt, lim, off, acc,
                   allp>>

\* a caller runs get_score_range once
call_get_score_range ==
    /\ phase = "idle"
    /\ query' = [op |-> "get_score_range", f |-> NoFilter, limit |-> 0,
             offset |-> 0, out |-> get_score_range]
    /\ phase' = "called"
    /\ UNCHANGED <<now, mgrVars, sessVars, schVars, image, table, filt, lim, off, acc,
                   allp>>

\* a caller runs get_distinct_label_details once, with or without a label
call_get_distinct_label_details ==
    /\ phase = "idle"
    /\ \E label \in {None, EmptyString, 1, 2} :
        query' = [op |-> "get_distinct_label_details",
              f |-> [NoFilter EXCEPT !.label = label], limit |-> 0,
              offset |-> 0, out |-> get_distinct_label_details(label)]
    /\ phase' = "called"
    /\ UNCHANGED <<now, mgrVars, sessVars, schVars, image, table, filt, lim, off, acc,
                   allp>>

\* one query call on each table made of the sample rows
InitQuery ==
    /\ InitManager
    /\ InitSessions
    /\ InitSchemaFixed
    /\ table \in SUBSET SampleRows
    /\ filt = NoFilter
    /\ lim = 1
    /\ off = 0
    /\ acc = <<>>
    /\ allp = <<>>
    /\ phase = "idle"
    /\ query = NoQuery
    /\ image = NoImage

NextQuery ==
    \/ call_get_image_paths
    \/ call_get_all_image_paths
    \/ call_get_total_image_count
    \/ call_get_score_range
    \/ call_get_distinct_label_details

SpecQuery == InitQuery /\ [][NextQuery]_vars

(* ------------------------------------------------------------ image service *)

\* the longest path, in chunks
MaxPathLen == 4

\* a path is a sequence of chunks of text; no chunk holds part of 'dbfs:' or
\* of '/Volumes/' other than the two chunks that are exactly these, "7" is a
\* digit and "img" a word without '.', '/' or digits
Chunks == {"dbfs:", "/Volumes/", "/", "7", "img", ".", ".png", ".PNG", " "}

Paths == UNION {[1..n -> Chunks] : n \in 0..MaxPathLen}

\* config.py line 14
VOLUME_BASE_PATH == <<"/Volumes/", "demos/image_app/images">>

\* str.strip(): the whitespace at both ends goes
RECURSIVE Strip(_)
Strip(path) ==
    IF path = <<>> THEN <<>>
    ELSE IF Head(path) = " " THEN Strip(Tail(path))
    ELSE IF path[Len(path)] = " " THEN Strip(SubSeq(path, 1, Len(path) - 1))
    ELSE path

\* str.startswith(prefix)
StartsWith(path, prefix) ==
    /\ Len(path) >= Len(prefix)
    /\ SubSeq(path, 1, Len(prefix)) = prefix

NotDbfs(chunk) == chunk # "dbfs:"

\* line 38, str.replace('dbfs:', ''): every occurrence of 'dbfs:' is removed
ReplaceDbfs(path) == SelectSeq(path, NotDbfs)

\* str.isdigit(): at least one character and digits only
IsDigit(path) == path # <<>> /\ \A i \in 1..Len(path) : path[i] = "7"

\* '/' in path
HasSlash(path) == \E i \in 1..Len(path) : path[i] \in {"/", "/Volumes/"}

\* line 48: '.' in path and path.lower() ends with an image extension
HasImageExtension(path) ==
    /\ path # <<>>
    /\ path[Len(path)] \in {".png", ".PNG"}

\* str.find('/Volumes/'): the first occurrence, 0 when there is none
FindVolumes(path) ==
    IF \E i \in 1..Len(path) : path[i] = "/Volumes/"
    THEN CHOOSE i \in 1..Len(path) :
            /\ path[i] = "/Volumes/"
            /\ \A k \in 1..(i - 1) : path[k] # "/Volumes/"
    ELSE 0

\* lines 27-70: the path handed to files.download, or <<>> when the input is
\* turned away with a warning
NormalizedPath(file_path) ==
    LET file_path_str == Strip(file_path)
    IN  IF file_path = <<>> THEN <<>>
        ELSE IF StartsWith(file_path_str, <<"dbfs:", "/Volumes/">>)
             THEN ReplaceDbfs(file_path_str)
        ELSE IF StartsWith(file_path_str, <<"/Volumes/">>) THEN file_path_str
        ELSE IF IsDigit(file_path_str) THEN <<>>
        ELSE IF ~HasSlash(file_path_str)
             THEN IF HasImageExtension(file_path_str)
                  THEN VOLUME_BASE_PATH \o <<"/">> \o file_path_str
                  ELSE <<>>
        ELSE IF StartsWith(file_path_str, <<"/">>)
             THEN IF FindVolumes(file_path_str) = 0 THEN <<>>
                  ELSE SubSeq(file_path_str, FindVolumes(file_path_str),
                              Len(file_path_str))
        ELSE <<>>

\* load_image_from_volume, lines 23-75: up to the download request
load_image_from_volume ==
    /\ image.state = "pending"
    /\ LET normalized_path == NormalizedPath(image.input)
       IN  image' = IF normalized_path = <<>>
                    THEN [image EXCEPT !.state = "rejected"]
                    ELSE [image EXCEPT !.state = "downloading",
                                       !.dispatched = normalized_path,
                                       !.downloads = 1]
    /\ UNCHANGED <<now, mgrVars, sessVars, schVars, table, filt, lim, off, acc,
                   allp, phase, query>>

\* lines 75-97: the file comes back and opens as an image
files_download_ok ==
    /\ image.state = "downloading"
    /\ image' = [image EXCEPT !.state = "image"]
    /\ UNCHANGED <<now, mgrVars, sessVars, schVars, table, filt, lim, off, acc,
                   allp, phase, query>>

\* lines 99-102: the download or Image.open raises; the handler returns None
files_download_fails ==
    /\ image.state = "downloading"
    /\ image' = [image EXCEPT !.state = "error_caught"]
    /\ UNCHANGED <<now, mgrVars, sessVars, schVars, table, filt, lim, off, acc,
                   allp, phase, query>>

\* one load_image_from_volume call for each path
InitImage ==
    /\ InitManager
    /\ InitSessions
    /\ InitSchemaFixed
    /\ table = {}
    /\ filt = NoFilter
    /\ lim = 1
    /\ off = 0
    /\ acc = <<>>
    /\ allp = <<>>
    /\ phase = "idle"
    /\ query = NoQuery
    /\ \E file_path \in Paths :
            image = [input |-> file_path, state |-> "pending",
                     dispatched |-> <<>>, downloads |-> 0]

NextImage ==
    \/ load_image_from_volume
    \/ files_download_ok
    \/ files_download_fails

SpecImage == InitImage /\ [][NextImage]_vars

(* ------------------------------------------------------------------ claims *)

Ended(t) == call[t].outcome \in {"returned", "stopped", "raised"}

\* C1 as stated: a get_connection call made while the token is at most 900 s
\* old fetches no token, closes no pool and builds no pool; a call made when it
\* is older fetches exactly one token and builds exactly one pool.
C1_RefreshAtBoundary_Original ==
    Ended(1) =>
        /\ call[1].age0 \in 0..900 =>
                call[1].fetches = 0 /\ call[1].closes = 0 /\ call[1].builds = 0
        /\ call[1].age0 > 900 => call[1].fetches = 1 /\ call[1].builds = 1

\* C1 amended: a call made while the token is at most 900 s old fetches no
\* token, closes no pool and builds no pool; a call made when it is older closes
\* the live pool and makes exactly one fetch attempt; when the fetch succeeds the
\* call builds exactly one pool, when it fails the call builds none.
C1_RefreshAtBoundary ==
    Ended(1) =>
        /\ call[1].age0 \in 0..900 =>
                call[1].fetches = 0 /\ call[1].closes = 0 /\ call[1].builds = 0
        /\ call[1].age0 > 900 =>
                /\ call[1].fetches = 1
                /\ call[1].closes = (IF call[1].pool0 THEN 1 ELSE 0)
                /\ call[1].outcome = "returned" => call[1].builds = 1
                /\ call[1].outcome = "stopped" => call[1].builds = 0

\* a call made 901 s after the fetch returned with one refresh and one rebuild
C1_Witness ==
    /\ call[1].age0 = 901
    /\ call[1].outcome = "returned"
    /\ call[1].fetches = 1 /\ call[1].closes = 1 /\ call[1].builds = 1

\* C2: whenever a pool handle exists, that pool was built with the token now
\* stored in postgres_password.
C2_PoolBoundToStoredToken ==
    connection_pool # None => pools[connection_pool].tok = postgres_password

\* C3: no session enters a with-block on a pool that another session's rebuild
\* has already closed.
C3_NoClosedPoolObserved ==
    \A t \in Sessions : pc[t] = "with_enter" => ~pools[h[t]].closed

\* C4: every pool that was built and is still open is the live handle (no
\* leaked duplicate pool), and the one expiry there is before any time has
\* passed (no credential yet) leads to one token fetched and one pool built.
C4_SingleRebuild ==
    /\ \A p \in 1..Len(pools) : ~pools[p].closed => connection_pool = p
    /\ now = StartTime => issued <= 1 /\ Len(pools) <= 1

FetchFails(t) == pc[t] = "rot_fetch" /\ pc'[t] # "rot_fetch" /\ issued' = issued

\* C5: a failed token fetch ends the operation after that one attempt: no pool
\* is built, no connection is handed out, the stored token and its timestamp
\* stay as they were, and the call after it attempts a fetch again.
C5_FetchFailureHalts ==
    /\ [][FetchFails(1) =>
            /\ pc'[1] = "idle" /\ result'[1] = "stopped"
            /\ call'[1].fetches = 1 /\ call'[1].builds = 0
            /\ outer'[1] = None /\ inner'[1] = None
            /\ pools' = pools /\ connection_pool' = None
            /\ postgres_password' = postgres_password
            /\ last_password_refresh' = last_password_refresh]_vars
    /\ [](Ended(1) /\ call[1].after_stop => call[1].fetches = 1)

\* a fetch failed while an expired token was stored, and the operation stopped
C5_Witness ==
    /\ result[1] = "stopped" /\ pc[1] = "idle"
    /\ call[1].age0 > 900 /\ call[1].fetches = 1
    /\ postgres_password # None

\* the step by which check_table_exists returns True or False to its caller
CheckReturns(t) ==
    /\ frame[t] \in {"cte", "fts"}
    /\ pc'[t] = "idle"
    /\ result'[t] \in {"true", "false"}

\* the smallest schema that holds the table, read off the catalog
IsSmallestHolder(s) == s \in catalog /\ \A r \in catalog : s <= r

\* the schema location after a call that returned True: unchanged when the
\* table is in the configured schema, else the smallest schema holding it
LocatedAfterTrue ==
    /\ DEFAULT_SCHEMA' \in catalog
    /\ DEFAULT_SCHEMA \in catalog => DEFAULT_SCHEMA' = DEFAULT_SCHEMA
    /\ DEFAULT_SCHEMA \notin catalog => IsSmallestHolder(DEFAULT_SCHEMA')

Distinct(seq) == \A i, j \in 1..Len(seq) : i # j => seq[i] # seq[j]

SatisfiesSupplied(row, f) ==
    /\ f.search_term # <<>> => ILike(row.path, f.search_term)
    /\ f.label # None => row.label = f.label
    /\ f.label_detail # None => row.labelDetail = f.label_detail
    /\ f.min_score # NoScore => (row.score # NoScore /\ row.score >= f.min_score)
    /\ f.max_score # NoScore => (row.score # NoScore /\ row.score <= f.max_score)

SelectedPaths(f) == {row.path : row \in {r \in table : SatisfiesSupplied(r, f)}}

\* C11: get_image_paths, get_all_image_paths and get_total_image_count select
\* exactly the rows that satisfy every supplied filter field, one AND-ed
\* predicate per supplied field and none per absent field.
C11_SuppliedFiltersSelect ==
    /\ query.op = "get_all_image_paths" =>
            query.out = OrderByPath(SelectedPaths(query.f))
    /\ query.op = "get_total_image_count" =>
            query.out = Cardinality(SelectedPaths(query.f))
    /\ query.op = "get_image_paths" =>
            LET page == LimitOffset(OrderByPath(SelectedPaths(query.f)),
                                    query.limit, query.offset)
            IN  query.out = [i \in 1..Len(page) |-> <<page[i]>>]

NonNullScores == {row.score : row \in {r \in table : r.score # NoScore}}

\* C12: get_score_range returns (min, max) of the non-null scores when a row
\* has one, and exactly (0.0, 1.0) when none has (empty table or only NULL
\* scores); it returns a pair in every case.
C12_ScoreRangeOrDefault ==
    query.op = "get_score_range" =>
        /\ Len(query.out) = 2
        /\ IF NonNullScores = {}
           THEN query.out = <<0, 100>>
           ELSE /\ query.out[1] \in NonNullScores
                /\ query.out[2] \in NonNullScores
                /\ \A x \in NonNullScores : query.out[1] <= x /\ x <= query.out[2]

\* get_score_range on a table whose only row has a NULL score
C12_Witness ==
    /\ query.op = "get_score_range"
    /\ table # {}
    /\ NonNullScores = {}
    /\ query.out = <<0, 100>>

Ascending(seq) == \A i, j \in 1..Len(seq) : i < j => seq[i] < seq[j]

\* C13: for every label X, get_distinct_label_details(label=X) is a subset of
\* get_distinct_label_details(), every value returned is the non-null
\* labelDetail of a row whose label is X, and both results are without
\* duplicates and ascending.
C13_DetailsOfLabel ==
    (query.op = "get_distinct_label_details" /\ query.f.label # None) =>
        LET unfiltered == get_distinct_label_details(None)
        IN  /\ \A i \in 1..Len(query.out) :
                    /\ \E j \in 1..Len(unfiltered) : unfiltered[j] = query.out[i]
                    /\ query.out[i] # None
                    /\ \E row \in table : /\ row.label = query.f.label
                                          /\ row.labelDetail = query.out[i]
            /\ Ascending(query.out)
            /\ Ascending(unfiltered)

\* the dispatch the claim gives an input by its shape (<<>> when it is to be
\* turned away), the shape being taken once the surrounding whitespace is off
ClaimedDispatch(file_path) ==
    LET stripped == Strip(file_path)
    IN  IF StartsWith(stripped, <<"dbfs:", "/Volumes/">>) THEN Tail(stripped)
        ELSE IF StartsWith(stripped, <<"/Volumes/">>) THEN stripped
        ELSE IF ~HasSlash(stripped) /\ HasImageExtension(stripped)
                /\ ~IsDigit(stripped)
             THEN VOLUME_BASE_PATH \o <<"/">> \o stripped
        ELSE IF StartsWith(stripped, <<"/">>) /\ FindVolumes(stripped) # 0
             THEN SubSeq(stripped, FindVolumes(stripped), Len(stripped))
        ELSE <<>>

\* C14: load_image_from_volume maps each input to one outcome by its shape:
\* 'dbfs:/Volumes/...' is dispatched with only the leading 'dbfs:' removed,
\* '/Volumes/...' unchanged, a bare filename with an image extension under
\* VOLUME_BASE_PATH, a '/...' path holding '/Volumes/' from the first
\* '/Volumes/' on, and every other shape is rejected without a download.
C14_DispatchByShape ==
    image.state \notin {"none", "pending"} =>
        IF ClaimedDispatch(image.input) = <<>>
        THEN image.state = "rejected" /\ image.downloads = 0
        ELSE image.state # "rejected" /\ image.dispatched = ClaimedDispatch(image.input)

\* C15: every database failure raised inside a public operation is caught at
\* the boundary of the operation and returned as a failure result: no
\* operation ends with the exception leaving it.
C15_FailuresCaught ==
    \A t \in Sessions : result[t] # "raised"

\* st.error of line 137: shown when the handler of check_table_exists ran,
\* which is before find_table_schema is called
ErrorMessageShown(t) == err[t] /\ ~cte[t].searched

\* C16: at startup a query or connection error is reported differently from
\* 'table not found in any schema' (False without a message, followed by the
\* setup instructions): the result or what the user is shown differs.
C16_NotFoundDistinctFromError ==
    \A t \in Sessions :
        (pc[t] = "idle" /\ err[t]) =>
            ~(result[t] = "false" /\ ~ErrorMessageShown(t))

\* connections of pool p that session t has checked out
HeldBy(t, p) ==
    (IF outer[t] = p THEN 1 ELSE 0) + (IF inner[t] = p THEN 1 ELSE 0)

\* C17: every connection an operation takes from the pool goes back on every
\* exit path (return, early return, error, stop): a pool's checked-out count is
\* what the running operation holds, and nothing is held once it has finished.
C17_ConnectionsReturned ==
    /\ \A p \in 1..Len(pools) : pools[p].out = HeldBy(1, p)
    /\ pc[1] = "idle" =>
            /\ outer[1] = None /\ inner[1] = None
            /\ \A p \in 1..Len(pools) : pools[p].out = 0

\* check_table_exists ended after find_table_schema failed while both
\* connections were checked out
C17_Witness ==
    /\ pc[1] = "idle" /\ result[1] = "false"
    /\ err[1] /\ cte[1].searched
    /\ outer[1] = None /\ inner[1] = None
    /\ Len(pools) > 0
    /\ \A p \in 1..Len(pools) : pools[p].out = 0

\* C18: no call holds a pooled connection while it waits for a second one from
\* the same pool.
C18_NoHoldAndWait ==
    \A t \in Sessions :
        ~(pc[t] = "with_enter" /\ outer[t] # None /\ h[t] = outer[t])

====
